---- MODULE Spec2Model ----
(***************************************************************************)
(* Model of InfluxDBHandler (stock_data_ingestion.py): the existence-      *)
(* checked ingestion of daily price bars and company news for a symbol.    *)
(*                                                                         *)
(* Time is counted in ticks, TicksPerDay ticks to a day.  A date string    *)
(* "YYYY-MM-DD" is modelled by the day it names (or as malformed); a       *)
(* datetime object by its tick, which need not be a midnight.              *)
(* The store, the quote provider and the news provider are external: each  *)
(* call to one of them is a step whose outcome (an answer or an error) is  *)
(* chosen by the environment.                                              *)
(***************************************************************************)
EXTENDS Integers, Sequences, FiniteSets, TLC

\* ---- bounds of the model ------------------------------------------------
NumDays == 2
TicksPerDay == 2
MaxCalls == 2
MaxNewsItems == 1
MaxTime == 4
MaxRows == 3

Symbols == {"AAPL", "MSFT"}
Days == 0 .. (NumDays - 1)
MaxTick == NumDays * TicksPerDay
Ticks == 0 .. MaxTick

\* ---- values -------------------------------------------------------------
\* What a callee hands back: a return value, or an exception in flight.
Return(v) == [exc |-> FALSE, ret |-> v]
Raise == [exc |-> TRUE, ret |-> FALSE]

\* The start_date / end_date arguments of ingest_data: a string (the day it
\* names, or malformed) or a datetime object (here one with a time of day: a
\* midnight datetime is the value a string parses to).
DateArgs ==
    {[kind |-> "str", wellformed |-> TRUE, tick |-> d * TicksPerDay] : d \in 0 .. NumDays}
    \cup {[kind |-> "str", wellformed |-> FALSE, tick |-> 0]}
    \cup {[kind |-> "datetime", wellformed |-> TRUE, tick |-> t] :
            t \in {x \in Ticks : x % TicksPerDay # 0}}

\* The store's answer to the existence query: an error, or a list of
\* tables, each a list of records carrying the count value.
QueryResponses ==
    {[err |-> TRUE, tables |-> << >>]}
    \cup {[err |-> FALSE, tables |-> tb] :
            tb \in {<< >>, << << >> >>, << <<0>> >>, << <<1>> >>}}

\* The news provider's answer: an error, or a list of items, each modelled
\* by its timestamp.
NewsResponses(fromDay, toDay) ==
    {[err |-> TRUE, items |-> {}]}
    \cup {[err |-> FALSE, items |-> s] :
            s \in {x \in SUBSET {t \in Ticks : fromDay * TicksPerDay <= t
                                                /\ t < (toDay + 1) * TicksPerDay} :
                      Cardinality(x) <= MaxNewsItems}}

NoArgs == [symbol |-> "AAPL",
           start_date |-> [kind |-> "datetime", wellformed |-> TRUE, tick |-> 0],
           end_date |-> [kind |-> "datetime", wellformed |-> TRUE, tick |-> 0]]
NoQuery == [asked |-> FALSE, resp |-> [err |-> FALSE, tables |-> << >>], ret |-> FALSE]
NoPrev == [same_args |-> FALSE, truthful |-> FALSE, stock_success |-> FALSE,
           stock_fetch |-> "none"]
NoCalls == [stock_check |-> 0, stock_ingest |-> 0, stock_fetch |-> 0, stock_write |-> 0,
            news_check |-> 0, news_ingest |-> 0, news_fetch |-> 0, news_write |-> 0]

VARIABLES
    quotes,          \* the trading days: the days the quote provider holds a bar for
    finnhub_client,  \* TRUE when connect() created the news client
    stock_written,   \* <<symbol, tick>> -> number of times the bar was written
    news_store,      \* the market_news points of the store: <<symbol, tick>>
    pc,              \* position inside ingest_data
    args,            \* the arguments of the current ingest_data call
    start_date,      \* start_date after line 179 (a tick)
    end_date,        \* end_date after line 181 (a tick)
    stock_exists, stock_success, news_exists, news_success,
    points_to_write, \* the batch built by the running sub-flow
    outcome,         \* "none", "returned" or "raised"
    result,          \* the value ingest_data returned
    last_query,      \* the existence query just answered, and what line 69/73 made of it
    truthful,        \* the store answered this call's stock_data query truthfully
    stock_fetch,     \* "none", "error", "empty", "data": what yf.download did
    news_fetch,      \* "none", "disabled", "error", "empty", "data"
    calls,           \* external calls made by the current ingest_data call
    store0,          \* stock_written when the current call began
    news0,           \* news_store when the current call began
    prev,            \* the previous call, when it had the same arguments
    callNo,          \* ingest_data calls begun in this run
    assumed,         \* every call so far: day-aligned dates, truthful stock_data answer
    newsLog          \* the run's news provider calls and sleeps, in order

\* retrieve_data and visualize_data
VARIABLES
    r_pc,            \* "idle", "loop", "returned" or "visualized"
    symbols,         \* the symbols argument of retrieve_data, a list
    query_ok,        \* the combined query of line 252 was answered
    stock_data,      \* symbol -> the dict of line 254, in insertion order
    news_data,       \* symbol -> the list of line 255
    rowsDone,        \* result records processed so far
    priced,          \* the symbols a record with a closing price arrived for
    ret,             \* what retrieve_data handed back
    aligned          \* symbol -> the news markers of lines 326-352

ingest == <<quotes, finnhub_client, stock_written, news_store, pc, args, start_date,
            end_date, stock_exists, stock_success, news_exists, news_success,
            points_to_write, outcome, result, last_query, truthful, stock_fetch,
            news_fetch, calls, store0, news0, prev, callNo, assumed, newsLog>>

retr == <<r_pc, symbols, query_ok, stock_data, news_data, rowsDone, priced, ret, aligned>>

vars == <<quotes, finnhub_client, stock_written, news_store, pc, args, start_date,
          end_date, stock_exists, stock_success, news_exists, news_success,
          points_to_write, outcome, result, last_query, truthful, stock_fetch,
          news_fetch, calls, store0, news0, prev, callNo, assumed, newsLog,
          r_pc, symbols, query_ok, stock_data, news_data, rowsDone, priced, ret,
          aligned>>

\* ---- pure functions -----------------------------------------------------
\* Mutant of strptime: a malformed string is accepted.
Strptime_Lenient(s) == Return(s.tick)

\* datetime.strptime(s, '%Y-%m-%d'): midnight of the day, ValueError on a
\* malformed string.
Strptime(s) == IF s.wellformed THEN Return(s.tick) ELSE Raise

\* lines 178-181: a string is parsed, a datetime object is kept as it is.
ParseDate(d) == IF d.kind = "str" THEN Strptime(d) ELSE Return(d.tick)

\* start_date.isoformat() + "Z": the full timestamp, time of day included.
Isoformat(t) == t

\* start_date.strftime('%Y-%m-%d'): the day, time of day dropped.
StrftimeDay(t) == t \div TicksPerDay

\* pd.Timestamp(index).tz_localize('UTC'): a bar's day as a store timestamp.
BarTime(day) == day * TicksPerDay

\* Mutants of line 69 and of line 73: a count compared with 1, and a failed
\* query taken for existing data.
CheckDataExists_GreaterOne(resp) ==
    IF resp.err
    THEN Return(FALSE)
    ELSE Return(Len(resp.tables) > 0
                /\ Len(resp.tables[1]) > 0
                /\ resp.tables[1][1] > 1)

CheckDataExists_FailOpen(resp) ==
    IF resp.err
    THEN Return(TRUE)
    ELSE Return(Len(resp.tables) > 0
                /\ Len(resp.tables[1]) > 0
                /\ resp.tables[1][1] > 0)

\* line 69, and lines 71-73 for a failed query.
CheckDataExists(resp) ==
    IF resp.err
    THEN Return(FALSE)
    ELSE Return(Len(resp.tables) > 0
                /\ Len(resp.tables[1]) > 0
                /\ resp.tables[1][1] > 0)

\* Mutants of the except clauses: the exception is raised again, or the
\* failure is reported as a success.
StockOnException_Swallowed == Return(TRUE)
StockOnException_Uncaught == Raise
NewsOnException_Uncaught == Raise

\* The except clauses of the two sub-flows (lines 112-114, 167-170).
StockOnException == Return(FALSE)
NewsOnException == Return(FALSE)

\* Mutant of line 86: an empty result reported as a failure.
StockOnEmpty_Failure == Return(FALSE)

\* lines 84-86 and 131-133: an empty result is not an error.
StockOnEmpty == Return(TRUE)
NewsOnEmpty == Return(TRUE)

\* line 120: no news client.
NewsDisabled == Return(FALSE)

\* Mutants of lines 185 and 197: the sub-flow runs whatever the check said.
StockBranch_Always(exists) == "fetch_stock"
NewsBranch_Always(exists) == "fetch_news"

\* line 185 / line 197: a sub-flow is skipped when its data exists.
StockBranch(exists) == IF exists THEN "check_news" ELSE "fetch_stock"
NewsBranch(exists) == IF exists THEN "return" ELSE "fetch_news"

\* line 206.
Overall(s, n) == s /\ n

\* ---- the external services ----------------------------------------------
StockStore == {c \in DOMAIN stock_written : stock_written[c] > 0}

\* range(start, stop) |> filter(symbol): is there a point in [start, stop)?
PointsIn(points, sym, from, to) ==
    {c \in points : c[1] = sym /\ from <= c[2] /\ c[2] < to}

TruthfulResponse(present) ==
    [err |-> FALSE, tables |-> IF present THEN << <<1>> >> ELSE << >>]

\* yf.download(symbol, start, end): the bars of the days in [start, end).
Download(sym, fromDay, toDay) ==
    {<<sym, BarTime(d)>> : d \in {x \in quotes : fromDay <= x /\ x < toDay}}

\* ---- the state after construction and connect() -------------------------
Init ==
    /\ quotes \in SUBSET Days
    /\ finnhub_client \in BOOLEAN
    /\ stock_written = [c \in Symbols \X Ticks |-> 0]
    /\ news_store = {}
    /\ pc = "idle"
    /\ args = NoArgs
    /\ start_date = 0
    /\ end_date = 0
    /\ stock_exists = FALSE
    /\ stock_success = FALSE
    /\ news_exists = FALSE
    /\ news_success = FALSE
    /\ points_to_write = {}
    /\ outcome = "none"
    /\ result = FALSE
    /\ last_query = NoQuery
    /\ truthful = FALSE
    /\ stock_fetch = "none"
    /\ news_fetch = "none"
    /\ calls = NoCalls
    /\ store0 = stock_written
    /\ news0 = news_store
    /\ prev = NoPrev
    /\ callNo = 0
    /\ assumed = TRUE
    /\ newsLog = << >>
    /\ r_pc = "idle"
    /\ symbols = << >>
    /\ query_ok = FALSE
    /\ stock_data = << >>
    /\ news_data = << >>
    /\ rowsDone = 0
    /\ priced = {}
    /\ ret = [exc |-> FALSE, ret |-> [df |-> [columns |-> << >>, index |-> << >>,
                                            cell |-> << >>],
                                     news |-> << >>]]
    /\ aligned = << >>



\* ---- ingest_data, one step per external call ----------------------------
env == <<quotes, finnhub_client>>
Bump(field) == [calls EXCEPT ![field] = @ + 1]
DayAligned(a) == a.start_date.tick % TicksPerDay = 0 /\ a.end_date.tick % TicksPerDay = 0

\* An exception nobody catches leaves ingest_data.
Unwind ==
    /\ pc' = "done"
    /\ outcome' = "raised"

\* lines 172-181: the call, and the parsing of the two dates.  A call whose
\* dates both parse asks for a non-empty range.
IngestData(sym, sd, ed) ==
    /\ pc \in {"idle", "done"}
    /\ callNo < MaxCalls
    /\ callNo' = callNo + 1
    /\ args' = [symbol |-> sym, start_date |-> sd, end_date |-> ed]
    /\ prev' = IF pc = "done" /\ outcome = "returned" /\ args' = args
               THEN [same_args |-> TRUE, truthful |-> truthful,
                     stock_success |-> stock_success, stock_fetch |-> stock_fetch]
               ELSE NoPrev
    /\ store0' = stock_written
    /\ news0' = news_store
    /\ calls' = NoCalls
    /\ stock_exists' = FALSE
    /\ stock_success' = FALSE
    /\ news_exists' = FALSE
    /\ news_success' = FALSE
    /\ points_to_write' = {}
    /\ result' = FALSE
    /\ last_query' = NoQuery
    /\ truthful' = FALSE
    /\ stock_fetch' = "none"
    /\ news_fetch' = "none"
    /\ LET ps == ParseDate(sd)
           pe == ParseDate(ed)
       IN IF ps.exc \/ pe.exc
          THEN /\ Unwind
               /\ start_date' = 0
               /\ end_date' = 0
               /\ assumed' = assumed
          ELSE /\ ps.ret < pe.ret
               /\ pc' = "check_stock"
               /\ outcome' = "none"
               /\ start_date' = ps.ret
               /\ end_date' = pe.ret
               /\ assumed' = (assumed /\ DayAligned(args'))
    /\ UNCHANGED <<env, retr, stock_written, news_store, newsLog>>

\* line 184 and the branch of line 185.
CheckStock(resp) ==
    /\ pc = "check_stock"
    /\ calls' = Bump("stock_check")
    /\ truthful' = (resp = TruthfulResponse(
                       PointsIn(StockStore, args.symbol, Isoformat(start_date),
                                Isoformat(end_date)) # {}))
    /\ assumed' = (assumed /\ truthful')
    /\ LET r == CheckDataExists(resp)
       IN /\ last_query' = [asked |-> TRUE, resp |-> resp, ret |-> r.ret]
          /\ IF r.exc
             THEN /\ Unwind
                  /\ UNCHANGED <<stock_exists, stock_success>>
             ELSE /\ stock_exists' = r.ret
                  /\ pc' = StockBranch(r.ret)
                  /\ stock_success' = (r.ret /\ pc' = "check_news")
                  /\ outcome' = outcome
    /\ UNCHANGED <<env, retr, stock_written, news_store, args, start_date, end_date,
                   news_exists, news_success, points_to_write, result, stock_fetch,
                   news_fetch, store0, news0, prev, callNo, newsLog>>

\* _ingest_stock_data comes back to line 187 with r.
StockCaught(r) ==
    IF r.exc
    THEN /\ Unwind
         /\ stock_success' = stock_success
    ELSE /\ pc' = "check_news"
         /\ outcome' = outcome
         /\ stock_success' = r.ret

\* lines 77-86: yf.download, and the empty result.
FetchStock(ok) ==
    /\ pc = "fetch_stock"
    /\ calls' = [calls EXCEPT !.stock_ingest = @ + 1, !.stock_fetch = @ + 1]
    /\ last_query' = NoQuery
    /\ LET data == Download(args.symbol, StrftimeDay(start_date), StrftimeDay(end_date))
       IN IF ~ok
          THEN /\ StockCaught(StockOnException)
               /\ stock_fetch' = "error"
               /\ points_to_write' = {}
          ELSE IF data = {}
          THEN /\ StockCaught(StockOnEmpty)
               /\ stock_fetch' = "empty"
               /\ points_to_write' = {}
          ELSE /\ pc' = "write_stock"
               /\ outcome' = outcome
               /\ stock_success' = stock_success
               /\ stock_fetch' = "data"
               /\ points_to_write' = data
    /\ UNCHANGED <<env, retr, stock_written, news_store, args, start_date, end_date,
                   stock_exists, news_exists, news_success, result, truthful,
                   news_fetch, store0, news0, prev, callNo, assumed, newsLog>>

\* lines 88-114: the batch write of the converted bars.
WriteStock(ok) ==
    /\ pc = "write_stock"
    /\ calls' = Bump("stock_write")
    /\ points_to_write' = {}
    /\ IF ok
       THEN /\ stock_written' = [c \in DOMAIN stock_written |->
                                   IF c \in points_to_write THEN stock_written[c] + 1
                                   ELSE stock_written[c]]
            /\ pc' = "check_news"
            /\ outcome' = outcome
            /\ stock_success' = TRUE
       ELSE /\ stock_written' = stock_written
            /\ StockCaught(StockOnException)
    /\ UNCHANGED <<env, retr, news_store, args, start_date, end_date, stock_exists,
                   news_exists, news_success, result, last_query, truthful,
                   stock_fetch, news_fetch, store0, news0, prev, callNo, assumed,
                   newsLog>>

\* line 196 and the branch of line 197.
CheckNews(resp) ==
    /\ pc = "check_news"
    /\ calls' = Bump("news_check")
    /\ LET r == CheckDataExists(resp)
       IN /\ last_query' = [asked |-> TRUE, resp |-> resp, ret |-> r.ret]
          /\ IF r.exc
             THEN /\ Unwind
                  /\ UNCHANGED <<news_exists, news_success>>
             ELSE /\ news_exists' = r.ret
                  /\ pc' = NewsBranch(r.ret)
                  /\ news_success' = (r.ret /\ pc' = "return")
                  /\ outcome' = outcome
    /\ UNCHANGED <<env, retr, stock_written, news_store, args, start_date, end_date,
                   stock_exists, stock_success, points_to_write, result, truthful,
                   stock_fetch, news_fetch, store0, news0, prev, callNo, assumed,
                   newsLog>>

\* _ingest_news_data comes back to line 199 with r.
NewsCaught(r) ==
    IF r.exc
    THEN /\ Unwind
         /\ news_success' = news_success
    ELSE /\ pc' = "return"
         /\ outcome' = outcome
         /\ news_success' = r.ret

\* lines 118-120: no news client.
IngestNewsDisabled ==
    /\ pc = "fetch_news"
    /\ ~finnhub_client
    /\ calls' = Bump("news_ingest")
    /\ last_query' = NoQuery
    /\ news_fetch' = "disabled"
    /\ NewsCaught(NewsDisabled)
    /\ UNCHANGED <<env, retr, stock_written, news_store, args, start_date, end_date,
                   stock_exists, stock_success, news_exists, points_to_write,
                   result, truthful, stock_fetch, store0, news0, prev, callNo,
                   assumed, newsLog>>

\* lines 122-133: company_news, and the empty result.
FetchNews(resp) ==
    /\ pc = "fetch_news"
    /\ finnhub_client
    /\ calls' = [calls EXCEPT !.news_ingest = @ + 1, !.news_fetch = @ + 1]
    /\ last_query' = NoQuery
    /\ newsLog' = Append(newsLog, "call")
    /\ IF resp.err
       THEN /\ NewsCaught(NewsOnException)
            /\ news_fetch' = "error"
            /\ points_to_write' = {}
       ELSE IF resp.items = {}
       THEN /\ NewsCaught(NewsOnEmpty)
            /\ news_fetch' = "empty"
            /\ points_to_write' = {}
       ELSE /\ pc' = "write_news"
            /\ outcome' = outcome
            /\ news_success' = news_success
            /\ news_fetch' = "data"
            /\ points_to_write' = {<<args.symbol, t>> : t \in resp.items}
    /\ UNCHANGED <<env, retr, stock_written, news_store, args, start_date, end_date,
                   stock_exists, stock_success, news_exists, result, truthful,
                   stock_fetch, store0, news0, prev, callNo, assumed>>

\* lines 135-160: the batch write of the converted news items.
WriteNews(ok) ==
    /\ pc = "write_news"
    /\ calls' = Bump("news_write")
    /\ points_to_write' = {}
    /\ IF ok
       THEN /\ news_store' = news_store \cup points_to_write
            /\ pc' = "sleep"
            /\ outcome' = outcome
            /\ news_success' = news_success
       ELSE /\ news_store' = news_store
            /\ NewsCaught(NewsOnException)
    /\ UNCHANGED <<env, retr, stock_written, args, start_date, end_date, stock_exists,
                   stock_success, news_exists, result, last_query, truthful,
                   stock_fetch, news_fetch, store0, news0, prev, callNo, assumed,
                   newsLog>>

\* lines 164-166: the delay after a written batch.
Sleep ==
    /\ pc = "sleep"
    /\ newsLog' = Append(newsLog, "sleep")
    /\ news_success' = TRUE
    /\ pc' = "return"
    /\ UNCHANGED <<env, retr, stock_written, news_store, args, start_date, end_date,
                   stock_exists, stock_success, news_exists, points_to_write,
                   outcome, result, last_query, truthful, stock_fetch, news_fetch,
                   calls, store0, news0, prev, callNo, assumed>>

\* line 206.
ReturnOverall ==
    /\ pc = "return"
    /\ result' = Overall(stock_success, news_success)
    /\ outcome' = "returned"
    /\ pc' = "done"
    /\ last_query' = NoQuery
    /\ UNCHANGED <<env, retr, stock_written, news_store, args, start_date, end_date,
                   stock_exists, stock_success, news_exists, news_success,
                   points_to_write, truthful, stock_fetch, news_fetch, calls,
                   store0, news0, prev, callNo, assumed, newsLog>>

Next ==
    \/ \E sym \in Symbols, sd \in DateArgs, ed \in DateArgs : IngestData(sym, sd, ed)
    \/ \E resp \in QueryResponses : CheckStock(resp)
    \/ \E ok \in BOOLEAN : FetchStock(ok)
    \/ \E ok \in BOOLEAN : WriteStock(ok)
    \/ \E resp \in QueryResponses : CheckNews(resp)
    \/ IngestNewsDisabled
    \/ \E resp \in NewsResponses(StrftimeDay(start_date), StrftimeDay(end_date)) :
          FetchNews(resp)
    \/ \E ok \in BOOLEAN : WriteNews(ok)
    \/ Sleep
    \/ ReturnOverall

Spec == Init /\ [][Next]_vars

TypeOK ==
    /\ pc \in {"idle", "check_stock", "fetch_stock", "write_stock", "check_news",
               "fetch_news", "write_news", "sleep", "return", "done"}
    /\ outcome \in {"none", "returned", "raised"}
    /\ callNo \in 0 .. MaxCalls
    /\ Len(newsLog) <= 2 * MaxCalls


\* ---- the claims ---------------------------------------------------------
Returned == pc = "done" /\ outcome = "returned"

C2_FailClosed ==
    last_query.asked =>
        /\ last_query.resp.err => (~last_query.ret /\ outcome # "raised")
        /\ last_query.ret =>
              /\ ~last_query.resp.err
              /\ last_query.resp.tables # << >>
              /\ Head(last_query.resp.tables) # << >>
              /\ Head(Head(last_query.resp.tables)) >= 1

C2_Witness ==
    /\ last_query.asked
    /\ last_query.resp.err
    /\ ~last_query.ret
    /\ pc = "fetch_stock"

\* C3: in a call whose existence check reported data present for a
\* measurement, that sub-flow counts as success and neither the provider
\* fetch nor a store write for that measurement happens.
C3_SkipOnExisting ==
    /\ (calls.stock_check = 1 /\ stock_exists) =>
          /\ stock_success
          /\ calls.stock_ingest = 0 /\ calls.stock_fetch = 0 /\ calls.stock_write = 0
          /\ stock_written = store0
    /\ (calls.news_check = 1 /\ news_exists) =>
          /\ news_success
          /\ calls.news_ingest = 0 /\ calls.news_fetch = 0 /\ calls.news_write = 0
          /\ news_store = news0

C3_Witness ==
    /\ Returned
    /\ stock_exists /\ news_exists
    /\ result

\* C4: with day-aligned date ranges and a store that answers every
\* stock_data existence query truthfully, no bar is written more than once,
\* however the ranges of the calls overlap.
C4_NoDuplicateWrites ==
    assumed => \A c \in DOMAIN stock_written : stock_written[c] <= 1

\* a second call over another, overlapping range that found the first call's bar
C4_Witness ==
    /\ Returned
    /\ assumed
    /\ callNo = 2
    /\ ~prev.same_args
    /\ stock_exists
    /\ \E c \in StockStore : c[1] = args.symbol /\ start_date <= c[2] /\ c[2] < end_date
    /\ \E d \in quotes : StrftimeDay(start_date) <= d /\ d < StrftimeDay(end_date)
                         /\ <<args.symbol, BarTime(d)>> \notin StockStore


\* C5: a call that began its price sub-flow always goes on to the news
\* existence check and, unless news exists, to the news ingestion, whatever
\* failed in the price sub-flow; and no step of the news sub-flow changes the
\* price sub-flow's success value or the price points written.
NewsPhase == pc \in {"check_news", "fetch_news", "write_news", "sleep", "return"}

C5_PartialFailureIndependence ==
    /\ [](pc = "done" /\ calls.stock_check = 1 =>
             /\ outcome = "returned"
             /\ calls.news_check = 1
             /\ (news_exists \/ calls.news_ingest = 1))
    /\ [][NewsPhase => (stock_success' = stock_success /\ stock_written' = stock_written)]_vars

\* the price fetch failed, the news was still fetched and written
C5_Witness ==
    /\ Returned
    /\ stock_fetch = "error" /\ ~stock_success
    /\ news_fetch = "data" /\ calls.news_write = 1 /\ news_success

\* C6 as stated: a call whose existence check reports no price data and
\* whose quote fetch comes back empty returns true, with no price point
\* written.
C6_EmptyButValidAsStated ==
    (Returned /\ ~stock_exists /\ stock_fetch = "empty")
    => (result /\ stock_written = store0)

\* C6 amended: in such a call the price sub-flow reports success with no
\* price point written, and ingest_data returns the news sub-flow's success.
C6_EmptyButValid ==
    (Returned /\ ~stock_exists /\ stock_fetch = "empty")
    => /\ stock_success
       /\ calls.stock_write = 0
       /\ stock_written = store0
       /\ result = news_success

C6_Witness ==
    /\ Returned
    /\ ~stock_exists /\ stock_fetch = "empty"
    /\ quotes # {}
    /\ result
    /\ stock_written = store0

\* C7: between two successive calls to the news provider there is a sleep,
\* whatever the earlier call's outcome.
C7_NewsRateLimit ==
    \A i \in 1 .. (Len(newsLog) - 1) :
        ~(newsLog[i] = "call" /\ newsLog[i + 1] = "call")

\* C8: no failure inside a sub-flow leaves ingest_data as an exception: a
\* call that began its sub-flows returns, the failed sub-flows count as
\* false, and the value returned is price success AND news success.
C8_ErrorContainment ==
    /\ outcome = "raised" => calls.stock_check = 0
    /\ (pc = "done" /\ calls.stock_check = 1) =>
          /\ outcome = "returned"
          /\ result = (stock_success /\ news_success)
          /\ stock_fetch = "error" => ~stock_success
          /\ news_fetch = "error" => ~news_success

C8_Witness ==
    /\ Returned
    /\ stock_fetch = "error"
    /\ news_fetch = "error"
    /\ ~result

\* C9: a call given a malformed start_date or end_date string ends at once
\* with the exception, having made no existence query, no fetch and no
\* write.
Malformed(a) == ~a.start_date.wellformed \/ ~a.end_date.wellformed

C9_ValidationFailsFast ==
    (callNo > 0 /\ Malformed(args)) =>
        /\ pc = "done"
        /\ outcome = "raised"
        /\ calls = NoCalls
        /\ stock_written = store0
        /\ news_store = news0

\* the end date alone is malformed, in a run whose store already holds data
C9_Witness ==
    /\ pc = "done"
    /\ outcome = "raised"
    /\ args.start_date.wellformed /\ ~args.end_date.wellformed
    /\ StockStore # {}
    /\ calls = NoCalls

\* C10: without a news client the news sub-flow reports false without a
\* provider call or a write, and ingest_data reports something else than it
\* reports when the news fetch fails.
C10_DisabledDistinguished ==
    (Returned /\ news_fetch = "disabled") =>
        /\ ~news_success
        /\ calls.news_fetch = 0 /\ calls.news_write = 0
        /\ news_store = news0
        /\ result # Overall(stock_success, NewsOnException.ret)


\* C18: a sub-flow whose fetch returned data makes exactly one write call,
\* carrying every fetched point; when that write fails the sub-flow reports
\* failure, makes no second fetch or write, keeps nothing of the batch, and
\* leaves the store as it was.
C18_SingleBatchWrite ==
    /\ calls.stock_fetch <= 1 /\ calls.stock_write <= 1
    /\ calls.news_fetch <= 1 /\ calls.news_write <= 1
    /\ (Returned /\ stock_fetch = "data") =>
          /\ calls.stock_write = 1
          /\ points_to_write = {}
          /\ LET batch == Download(args.symbol, StrftimeDay(start_date),
                                   StrftimeDay(end_date))
             IN IF stock_success
                THEN \A c \in DOMAIN stock_written :
                        stock_written[c] = store0[c] + (IF c \in batch THEN 1 ELSE 0)
                ELSE stock_written = store0
    /\ (Returned /\ stock_fetch # "data") => (calls.stock_write = 0 /\ stock_written = store0)
    /\ (Returned /\ news_fetch = "data") =>
          /\ calls.news_write = 1
          /\ IF news_success
             THEN /\ news0 \subseteq news_store
                  /\ \E t \in Ticks : <<args.symbol, t>> \in news_store
                  /\ Cardinality(news_store \ news0) <= MaxNewsItems
             ELSE news_store = news0
    /\ (Returned /\ news_fetch # "data") => (calls.news_write = 0 /\ news_store = news0)

\* the price batch was fetched and its write failed
C18_Witness ==
    /\ Returned
    /\ stock_fetch = "data"
    /\ calls.stock_write = 1
    /\ ~stock_success
    /\ stock_written = store0
    /\ news_fetch = "data" /\ news_success

\* C20: with day-aligned ranges, a truthful store and a quote provider that
\* does not fail, a call that reports price success leaves every bar the
\* provider holds for the symbol in [start, end) in the store.
C20_CompleteOnSuccess ==
    (Returned /\ assumed /\ stock_success /\ stock_fetch # "error") =>
        Download(args.symbol, StrftimeDay(start_date), StrftimeDay(end_date))
            \subseteq StockStore


\* ---- retrieve_data and visualize_data ------------------------------------
\* The symbols a result record can carry: the requested ones and another.
AllSymbols == Symbols \cup {"GOOG"}
SymbolLists == {<< >>, <<"AAPL">>, <<"MSFT">>, <<"AAPL", "MSFT">>, <<"MSFT", "AAPL">>}
Times == 0 .. MaxTime
Prices == {100, 101}
Range(f) == {f[i] : i \in DOMAIN f}

\* A closing price, tagged with the symbol whose price it is; NaN is the
\* missing value (None in a record, NaN in the table).
NaN == [src |-> "none", price |-> 0]

\* A headline, tagged with the symbol it was written for; "" when missing.
HeadlineOf(sym) == sym

\* The records of the query result (line 252), one table per record.
Records ==
    {[measurement |-> "stock_data", symbol |-> sym, time |-> t, value |-> v,
      headline |-> ""] :
        sym \in AllSymbols, t \in Times, v \in {NaN} \cup {[src |-> x, price |-> p] :
                                                     x \in AllSymbols, p \in Prices}}
    \cup {[measurement |-> "market_news", symbol |-> sym, time |-> t, value |-> NaN,
           headline |-> h] :
            sym \in AllSymbols, t \in Times, h \in {""} \cup AllSymbols}

\* A record of the store carries its own symbol's price or headline.
WellTagged(rec) ==
    /\ rec.value.src \in {"none", rec.symbol}
    /\ rec.headline \in {"", HeadlineOf(rec.symbol)}

\* pd.DataFrame(): no column, no row.
EmptyDF == [columns |-> << >>, index |-> << >>, cell |-> << >>]

\* Mutant of lines 304-306: the query's exception leaves retrieve_data.
RetrieveOnException_Uncaught ==
    [exc |-> TRUE, ret |-> [df |-> EmptyDF, news |-> << >>]]

\* lines 304-306.
RetrieveOnException == Return([df |-> EmptyDF, news |-> << >>])

\* Mutant of line 266: the record is filed under the symbol left over from
\* the loop of line 256.
FileUnder_Leftover(rec, syms) ==
    IF syms = << >> THEN rec.symbol ELSE syms[Len(syms)]

\* line 266: the symbol a record is filed under.
FileUnder(rec, syms) == rec.symbol

\* line 275, dict assignment: an existing key keeps its place.
DictSet(d, k, v) ==
    IF \E i \in DOMAIN d : d[i].time = k
    THEN [i \in DOMAIN d |-> IF d[i].time = k THEN [time |-> k, value |-> v] ELSE d[i]]
    ELSE Append(d, [time |-> k, value |-> v])

DictGet(d, k) ==
    IF \E i \in DOMAIN d : d[i].time = k
    THEN (CHOOSE e \in Range(d) : e.time = k).value
    ELSE NaN

\* The keys of a dict, in insertion order, after the keys already in acc.
RECURSIVE UnionKeys(_, _)
UnionKeys(acc, d) ==
    IF d = << >> THEN acc
    ELSE UnionKeys(IF Head(d).time \in Range(acc) THEN acc ELSE Append(acc, Head(d).time),
                   Tail(d))

\* union_indexes(sort=False) over the columns, in column order.
RECURSIVE UnionIndex(_, _, _)
UnionIndex(acc, syms, data) ==
    IF syms = << >> THEN acc
    ELSE UnionIndex(UnionKeys(acc, data[Head(syms)]), Tail(syms), data)

MakeDF(cols, idx, data) ==
    [columns |-> cols, index |-> idx,
     cell |-> [c \in Range(cols) \X Range(idx) |-> DictGet(data[c[1]], c[2])]]

\* Mutant of line 290: a symbol without data gets no column.
FromDict_DropEmpty(syms, data) ==
    LET cols == SelectSeq(syms, LAMBDA x : data[x] # << >>)
    IN MakeDF(cols, UnionIndex(<< >>, cols, data), data)

\* line 290, pd.DataFrame.from_dict: a column per key, the rows the union of
\* the inner keys.
FromDict(syms, data) == MakeDF(syms, UnionIndex(<< >>, syms, data), data)

\* stock_df.empty
DfEmpty(df) == Len(df.columns) = 0 \/ Len(df.index) = 0

RECURSIVE Insert(_, _)
Insert(x, sorted) ==
    IF sorted = << >> THEN <<x>>
    ELSE IF x <= Head(sorted) THEN <<x>> \o sorted
    ELSE <<Head(sorted)>> \o Insert(x, Tail(sorted))

RECURSIVE SortTimes(_)
SortTimes(q) == IF q = << >> THEN << >> ELSE Insert(Head(q), SortTimes(Tail(q)))

\* Mutant of line 293: the table keeps the order of arrival.
SortIndex_Missing(df) == df

\* lines 292-293: to_datetime(utc=True) keeps the instants, sort_index orders
\* the rows.
SortIndex(df) == [df EXCEPT !.index = SortTimes(df.index)]

\* lines 290-296.
BuildPriceTable(syms, data) ==
    LET df == FromDict(syms, data)
    IN IF ~DfEmpty(df) THEN SortIndex(df) ELSE EmptyDF

\* pd.Timedelta("1d")
Tolerance == TicksPerDay

Dist(a, b) == IF a >= b THEN a - b ELSE b - a

\* Index.get_indexer(target, method="nearest", tolerance): the position of
\* the nearest label, the larger label on a tie, 0 when none is in tolerance.
NearestIndexer(index, t) ==
    LET lefts == {i \in DOMAIN index : index[i] <= t}
        rights == {i \in DOMAIN index : index[i] >= t}
        left == IF lefts = {} THEN 0
                ELSE CHOOSE i \in lefts : \A j \in lefts : index[j] <= index[i]
        right == IF rights = {} THEN 0
                 ELSE CHOOSE i \in rights : \A j \in rights : index[j] >= index[i]
        pick == IF right = 0 THEN left
                ELSE IF left = 0 THEN right
                ELSE IF t - index[left] < index[right] - t THEN left ELSE right
    IN IF pick = 0 THEN 0
       ELSE IF Dist(index[pick], t) <= Tolerance THEN pick ELSE 0

\* lines 326-333: stock_df[symbol].reindex(news_times, method="nearest", ...)
\* and the marker of each news item.
Reindex(df, sym, items) ==
    [k \in DOMAIN items |->
        LET i == NearestIndexer(df.index, items[k].time)
        IN [time |-> items[k].time,
            price |-> IF i = 0 THEN NaN ELSE df.cell[<<sym, df.index[i]>>],
            headline |-> items[k].headline]]

\* line 207-258: the call, the query, and the two empty mappings.
RetrieveData(syms, ok) ==
    /\ r_pc = "idle"
    /\ symbols' = syms
    /\ query_ok' = ok
    /\ IF ok
       THEN /\ stock_data' = [x \in Range(syms) |-> << >>]
            /\ news_data' = [x \in Range(syms) |-> << >>]
            /\ r_pc' = "loop"
            /\ ret' = ret
       ELSE /\ UNCHANGED <<stock_data, news_data>>
            /\ r_pc' = "returned"
            /\ ret' = RetrieveOnException
    /\ UNCHANGED <<ingest, rowsDone, priced, aligned>>

\* lines 261-288: one record of the result.
ProcessRecord(rec) ==
    /\ r_pc = "loop"
    /\ rowsDone < MaxRows
    /\ WellTagged(rec)
    /\ rowsDone' = rowsDone + 1
    /\ priced' = IF rec.measurement = "stock_data" /\ rec.value # NaN
                 THEN priced \cup {rec.symbol} ELSE priced
    /\ LET symbol == FileUnder(rec, symbols)
       IN IF symbol \notin Range(symbols)
          THEN UNCHANGED <<stock_data, news_data>>
          ELSE IF rec.measurement = "stock_data"
          THEN /\ stock_data' = IF rec.value # NaN
                                THEN [stock_data EXCEPT
                                        ![symbol] = DictSet(@, rec.time, rec.value)]
                                ELSE stock_data
               /\ news_data' = news_data
          ELSE /\ news_data' = IF rec.headline # ""
                               THEN [news_data EXCEPT
                                       ![symbol] = Append(@, [time |-> rec.time,
                                                              headline |-> rec.headline])]
                               ELSE news_data
               /\ stock_data' = stock_data
    /\ UNCHANGED <<ingest, r_pc, symbols, query_ok, ret, aligned>>

\* lines 290-302: the table, and the return.
BuildTable ==
    /\ r_pc = "loop"
    /\ ret' = Return([df |-> BuildPriceTable(symbols, stock_data), news |-> news_data])
    /\ r_pc' = "returned"
    /\ UNCHANGED <<ingest, symbols, query_ok, stock_data, news_data, rowsDone, priced,
                   aligned>>

\* lines 308-352: the news markers of every column of the table.
VisualizeData ==
    /\ r_pc = "returned"
    /\ ~ret.exc
    /\ LET df == ret.ret.df
           news == ret.ret.news
       IN aligned' = [x \in Range(df.columns) |->
                        IF x \in DOMAIN news /\ news[x] # << >>
                        THEN Reindex(df, x, news[x])
                        ELSE << >>]
    /\ r_pc' = "visualized"
    /\ UNCHANGED <<ingest, symbols, query_ok, stock_data, news_data, rowsDone, priced,
                   ret>>

NextRetrieve ==
    \/ \E syms \in SymbolLists, ok \in BOOLEAN : RetrieveData(syms, ok)
    \/ \E rec \in Records : ProcessRecord(rec)
    \/ BuildTable
    \/ VisualizeData

\* A run that retrieves from a store filled earlier.
InitRetrieve ==
    /\ Init
    /\ quotes = Days
    /\ finnhub_client

SpecRetrieve == InitRetrieve /\ [][NextRetrieve]_vars


\* ---- claims about retrieve_data and visualize_data -----------------------
RetrieveReturned == r_pc \in {"returned", "visualized"}

\* The price timestamps of a symbol in the store's answer, and its price there.
OwnTimes(sym) == {e.time : e \in Range(stock_data[sym])}
OwnNearest(sym, t) ==
    {a \in OwnTimes(sym) : \A b \in OwnTimes(sym) : Dist(a, t) <= Dist(b, t)}

\* C11: every news item of a symbol is aligned to the price at the nearest
\* timestamp of that symbol's own price series when that distance is within
\* one day; when none of the symbol's price timestamps is within one day it
\* has no aligned price; the item keeps its headline either way.
C11_AlignedWithinTolerance ==
    r_pc = "visualized" =>
        \A sym \in DOMAIN aligned :
            /\ Len(aligned[sym]) = Len(news_data[sym])
            /\ \A k \in DOMAIN aligned[sym] :
                LET t == news_data[sym][k].time
                    near == {a \in OwnNearest(sym, t) : Dist(a, t) <= Tolerance}
                IN /\ aligned[sym][k].headline = news_data[sym][k].headline
                   /\ IF near = {}
                      THEN aligned[sym][k].price = NaN
                      ELSE \E a \in near :
                              aligned[sym][k].price = DictGet(stock_data[sym], a)

\* C12: a news item exactly halfway between two price timestamps of its
\* symbol, both within one day, is aligned to the price of the earlier one.
C12_TieToEarlier ==
    r_pc = "visualized" =>
        \A sym \in DOMAIN aligned :
            \A k \in DOMAIN aligned[sym] :
                LET t == news_data[sym][k].time
                IN \A a, b \in OwnNearest(sym, t) :
                      (a < t /\ t < b /\ t - a <= Tolerance)
                          => aligned[sym][k].price = DictGet(stock_data[sym], a)

\* C13: when the query succeeds and only some of the requested symbols have
\* price data in the window, the call returns normally a table with a column
\* for every requested symbol, the columns of the symbols without data being
\* missing in every row.
C13_RetrievalShape ==
    (/\ RetrieveReturned
     /\ query_ok
     /\ \E x \in Range(symbols) : x \in priced
     /\ \E x \in Range(symbols) : x \notin priced)
        => /\ ~ret.exc
           /\ ret.ret.df.columns = symbols
           /\ ret.ret.df.index # << >>
           /\ \A x \in Range(symbols) \ priced :
                 \A t \in Range(ret.ret.df.index) : ret.ret.df.cell[<<x, t>>] = NaN

C13_Witness ==
    /\ r_pc = "returned"
    /\ query_ok
    /\ symbols = <<"AAPL", "MSFT">>
    /\ priced = {"AAPL"}
    /\ ret.ret.df.columns = symbols
    /\ Len(ret.ret.df.index) = 2

\* C14: every successful retrieval, the one where no requested symbol has
\* price data included, returns a table with exactly one column per
\* requested symbol.
C14_ColumnPerSymbol ==
    (RetrieveReturned /\ query_ok) => ret.ret.df.columns = symbols

\* C15: the index of every returned table is strictly increasing, whatever
\* the order in which the rows arrived.
C15_IndexStrictlyIncreasing ==
    RetrieveReturned =>
        \A i, j \in DOMAIN ret.ret.df.index :
            i < j => ret.ret.df.index[i] < ret.ret.df.index[j]

C15_Witness ==
    /\ r_pc = "returned"
    /\ query_ok
    /\ Len(ret.ret.df.index) = 3
    /\ \E x \in Range(symbols) :
          /\ Len(stock_data[x]) >= 2
          /\ stock_data[x][1].time > stock_data[x][2].time

\* C16: when the query fails, retrieve_data returns normally an empty table
\* and an empty news mapping.
C16_QueryFailureContained ==
    (RetrieveReturned /\ ~query_ok)
        => /\ ~ret.exc
           /\ ret.ret.df.columns = << >>
           /\ ret.ret.df.index = << >>
           /\ DOMAIN ret.ret.news = {}

C16_Witness ==
    /\ r_pc = "returned"
    /\ ~query_ok
    /\ symbols = <<"AAPL", "MSFT">>
    /\ ~ret.exc

\* The store's answer holds nothing for any requested symbol.
NoData ==
    /\ \A x \in Range(symbols) : stock_data[x] = << >> /\ news_data[x] = << >>

\* C17: for every list of requested symbols, what retrieve_data returns when
\* the query succeeds and finds nothing differs from what it returns when the
\* query fails.
C17_ErrorDistinguishable ==
    (RetrieveReturned /\ query_ok /\ NoData) => ret # RetrieveOnException

\* C19: a price or a news item appears only under its own symbol and only
\* under a requested symbol, and the aligned price of a symbol's news item is
\* a price of that symbol or none.
C19_NoAliasing ==
    /\ (RetrieveReturned /\ query_ok) =>
          /\ Range(ret.ret.df.columns) \subseteq Range(symbols)
          /\ DOMAIN ret.ret.news \subseteq Range(symbols)
          /\ \A x \in Range(ret.ret.df.columns) :
                \A t \in Range(ret.ret.df.index) :
                    ret.ret.df.cell[<<x, t>>].src \in {"none", x}
          /\ \A x \in DOMAIN ret.ret.news :
                \A k \in DOMAIN ret.ret.news[x] :
                    ret.ret.news[x][k].headline = HeadlineOf(x)
    /\ r_pc = "visualized" =>
          \A x \in DOMAIN aligned :
              \A k \in DOMAIN aligned[x] :
                  /\ aligned[x][k].price.src \in {"none", x}
                  /\ aligned[x][k].headline = HeadlineOf(x)

C19_Witness ==
    /\ r_pc = "visualized"
    /\ Len(symbols) = 2
    /\ "GOOG" \in priced
    /\ \E x \in DOMAIN aligned :
          \E k \in DOMAIN aligned[x] : aligned[x][k].price # NaN

====
